---- MODULE Spec2Model ----
(***************************************************************************)
(* Model of Gephi_Input_files_from_PD_data_v6.py: the subgroup loop of     *)
(* create_network_data_for_subgroup and the functions it drives            *)
(* (create_new_ward_and_setting_columns, categorise_columns,               *)
(* output_SM_file, output_Edge_file, output_Node_file).                    *)
(*                                                                         *)
(* A pandas frame is a sequence of records, one record per row, in row     *)
(* order.  A Python string is the sequence of its code points, so that     *)
(* concatenation is \o and string comparison is LexLess.  NumPy arrays     *)
(* indexed from 0 are functions on 0..n-1.                                 *)
(***************************************************************************)
EXTENDS Integers, Sequences, FiniteSets, TLC

VARIABLES
    pc,               \* position in create_network_data_for_subgroup
    DATA,             \* the caller's cleaned, sorted frame (main, line 588)
    subgroup_info,    \* dictionary: DATA, REPRESENT_REMOVED, SUBGROUP_NODE_NAME
    groups,           \* values the for loop of line 522 has still to visit
    group,            \* loop variable of line 522
    file_output_info, \* dictionary: DATA_SG, FILEMIDDLE
    servMove,         \* matrix returned by output_SM_file
    singles,          \* local of output_SM_file
    edgesdf,          \* frame written by output_Edge_file
    nodesdf,          \* frame written by output_Node_file
    files             \* the csv files written so far

vars == <<pc, DATA, subgroup_info, groups, group, file_output_info,
          servMove, singles, edgesdf, nodesdf, files>>

----------------------------------------------------------------------------
(* Bounds of the model *)

MaxLen == 3       \* rows of the input frame
MaxClients == 2   \* distinct ClientID values of the input frame
MaxN == 2         \* side of the matrices given to output_Edge_file alone
MaxCell == 2      \* largest cell of those matrices
MaxLoS == 2       \* largest LoSdays of the frames with free LoSdays

----------------------------------------------------------------------------
(* Strings *)

\* "None", the value clean_data puts where the group column is empty
NoneStr == <<78, 111, 110, 101>>

\* the other values of the group column: "X", "Y" and "Z"
GroupX == <<88>>
GroupY == <<89>>
GroupZ == <<90>>
GroupValues == {GroupX, GroupY, GroupZ, NoneStr}

\* the ward teams of the input: "M" and "LY"
TeamM == <<77>>
TeamLY == <<76, 89>>

\* subgroup_info['SUBGROUP_NODE_NAME']: "L"
NodeName == <<76>>

\* "Ward1", "Ward2", "Ward3"
Ward1 == <<87, 97, 114, 100, 49>>
Ward2 == <<87, 97, 114, 100, 50>>
Ward3 == <<87, 97, 114, 100, 51>>

Min(a, b) == IF a <= b THEN a ELSE b

\* a < b on Python str: the first differing code point decides, a proper
\* prefix is smaller
LexLess(a, b) ==
    \E i \in 1..(Min(Len(a), Len(b)) + 1) :
        /\ \A k \in 1..(i - 1) : a[k] = b[k]
        /\ \/ i <= Len(a) /\ i <= Len(b) /\ a[i] < b[i]
           \/ i = Len(a) + 1 /\ i <= Len(b)

\* str(v) of a value that is already a str
str(v) == v

\* s.replace(old, new): left to right, non-overlapping
RECURSIVE replace(_, _, _)
replace(s, old, new) ==
    IF Len(s) < Len(old) THEN s
    ELSE IF SubSeq(s, 1, Len(old)) = old
         THEN new \o replace(SubSeq(s, Len(old) + 1, Len(s)), old, new)
         ELSE <<s[1]>> \o replace(Tail(s), old, new)

make_filename(filename) ==
    LET f1 == replace(filename, <<44, 32>>, <<95>>)
        f2 == replace(f1, <<32>>, <<95>>)
        f3 == replace(f2, <<46>>, <<95>>)
    IN  replace(f3, <<44>>, <<95>>)

----------------------------------------------------------------------------
(* Frames *)

Range(s) == {s[i] : i \in DOMAIN s}

\* frame[name] as a sequence
Column(frame, name) == [i \in DOMAIN frame |-> frame[i][name]]

\* Series.unique(): the distinct values in order of first appearance
RECURSIVE unique(_)
unique(s) ==
    IF s = <<>> THEN <<>>
    ELSE LET u == unique(SubSeq(s, 1, Len(s) - 1))
             last == s[Len(s)]
         IN  IF last \in Range(u) THEN u ELSE Append(u, last)

RECURSIVE SeqSum(_)
SeqSum(s) == IF s = <<>> THEN 0 ELSE s[1] + SeqSum(Tail(s))

RECURSIVE SeqMax(_)
SeqMax(s) ==
    IF Len(s) = 1 THEN s[1]
    ELSE LET m == SeqMax(Tail(s)) IN IF s[1] >= m THEN s[1] ELSE m

----------------------------------------------------------------------------
(* create_new_ward_and_setting_columns *)

\* RecodeLoop without the test of line 462: the rows of the group in focus
\* are renamed as well
RECURSIVE RecodeLoopEveryGroup(_, _, _, _, _)
RecodeLoopEveryGroup(np, npColumn, notgroups, grp, name) ==
    IF notgroups = <<>> THEN np
    ELSE LET notgroup == Head(notgroups)
             np2 == [npWardTeam |->
                         [i \in DOMAIN npColumn |->
                             IF npColumn[i] = notgroup
                             THEN str(name \o str(notgroup))
                             ELSE np.npWardTeam[i]],
                     npSetting |->
                         [i \in DOMAIN npColumn |->
                             IF npColumn[i] = notgroup
                             THEN "Mixture"
                             ELSE np.npSetting[i]]]
         IN  RecodeLoopEveryGroup(np2, npColumn, Tail(notgroups), grp, name)

\* the loop of lines 461-464 over the arrays npWardTeam, npSetting
RECURSIVE RecodeLoop(_, _, _, _, _)
RecodeLoop(np, npColumn, notgroups, grp, name) ==
    IF notgroups = <<>> THEN np
    ELSE LET notgroup == Head(notgroups)
             np2 == IF grp # notgroup
                    THEN [npWardTeam |->
                              [i \in DOMAIN npColumn |->
                                  IF npColumn[i] = notgroup
                                  THEN str(name \o str(notgroup))
                                  ELSE np.npWardTeam[i]],
                          npSetting |->
                              [i \in DOMAIN npColumn |->
                                  IF npColumn[i] = notgroup
                                  THEN "Mixture"
                                  ELSE np.npSetting[i]]]
                    ELSE np
         IN  RecodeLoop(np2, npColumn, Tail(notgroups), grp, name)

\* create_new_ward_and_setting_columns that, where it would rename the
\* events of the other group values, drops them
RecodeDroppingEvents(si, foi, grp) ==
    LET frame == IF si.REPRESENT_REMOVED # 0
                 THEN SelectSeq(foi.DATA_SG, LAMBDA row : row[si.COLUMN] = grp)
                 ELSE foi.DATA_SG
    IN  [foi EXCEPT !.DATA_SG =
            [i \in DOMAIN frame |->
                [newWardTeam |-> frame[i].WardTeam,
                 newSetting |-> frame[i].Setting] @@ frame[i]]]

\* The arrays of lines 458-459 are views of the frame's columns, so the
\* masked assignments also change WardTeam and Setting of DATA_SG (which is
\* a deep copy of subgroup_info['DATA']).
create_new_ward_and_setting_columns(si, foi, grp) ==
    LET frame == foi.DATA_SG IN
    IF si.REPRESENT_REMOVED # 0
    THEN LET npColumn == Column(frame, si.COLUMN)
             np == RecodeLoop([npWardTeam |-> Column(frame, "WardTeam"),
                               npSetting |-> Column(frame, "Setting")],
                              npColumn, unique(npColumn), grp,
                              si.SUBGROUP_NODE_NAME)
         IN  [foi EXCEPT !.DATA_SG =
                 [i \in DOMAIN frame |->
                     [WardTeam |-> np.npWardTeam[i],
                      Setting |-> np.npSetting[i],
                      newWardTeam |-> np.npWardTeam[i],
                      newSetting |-> np.npSetting[i]] @@ frame[i]]]
    ELSE [foi EXCEPT !.DATA_SG =
             [i \in DOMAIN frame |->
                 [newWardTeam |-> frame[i].WardTeam,
                  newSetting |-> frame[i].Setting] @@ frame[i]]]

----------------------------------------------------------------------------
(* categorise_columns *)

\* the categories of astype('category'): the distinct values, sorted
RECURSIVE SortedLabels(_)
SortedLabels(S) ==
    IF S = {} THEN <<>>
    ELSE LET m == CHOOSE x \in S : \A y \in S \ {x} : LexLess(x, y)
         IN  <<m>> \o SortedLabels(S \ {m})

\* Categories in order of first appearance, not sorted
CategoriesByAppearance(labels) == unique(labels)

\* the labels sorted, each as often as it occurs
RECURSIVE SortedWithDuplicates(_)
SortedWithDuplicates(labels) ==
    IF labels = <<>> THEN <<>>
    ELSE LET k == CHOOSE i \in DOMAIN labels :
                      \A h \in DOMAIN labels : ~LexLess(labels[h], labels[i])
         IN  <<labels[k]>> \o
             SortedWithDuplicates(SubSeq(labels, 1, k - 1) \o
                                  SubSeq(labels, k + 1, Len(labels)))

\* Categories that are not reduced to the distinct values
CategoriesWithDuplicates(labels) == SortedWithDuplicates(labels)

Categories(labels) == SortedLabels(Range(labels))

\* cat.codes: the 0-based position of the value among the categories
CatCode(categories, label) ==
    (CHOOSE k \in DOMAIN categories : categories[k] = label) - 1

categorise_columns(foi) ==
    LET frame == foi.DATA_SG
        categories == Categories(Column(frame, "newWardTeam"))
    IN  [foi EXCEPT !.DATA_SG =
            [i \in DOMAIN frame |->
                [wardTeamCat |-> frame[i].newWardTeam,
                 wardTeamCatCode |->
                     CatCode(categories, frame[i].newWardTeam) + 1] @@ frame[i]]]

update_dictionary(si, foi, grp, filename) ==
    LET foi1 == create_new_ward_and_setting_columns(si, foi, grp)
        foi2 == categorise_columns(foi1)
    IN  [foi2 EXCEPT !.FILEMIDDLE = str(si.SUBGROUP_FILENAME) \o str(filename)]

----------------------------------------------------------------------------
(* output_SM_file *)

\* np.zeros((n, n))
zeros(n) == [r \in 0..(n - 1) |-> [c \in 0..(n - 1) |-> 0]]

\* TransitionLoop with row and column of line 150 exchanged
RECURSIVE TransitionLoopTransposed(_, _, _)
TransitionLoopTransposed(m, cWardTeam, j) ==
    IF j >= Len(cWardTeam) - 1 THEN m
    ELSE TransitionLoopTransposed(
             [m EXCEPT ![cWardTeam[j + 2] - 1][cWardTeam[j + 1] - 1] = @ + 1],
             cWardTeam, j + 1)

\* TransitionLoop with the range of line 148 one short
RECURSIVE TransitionLoopShort(_, _, _)
TransitionLoopShort(m, cWardTeam, j) ==
    IF j >= Len(cWardTeam) - 2 THEN m
    ELSE TransitionLoopShort(
             [m EXCEPT ![cWardTeam[j + 1] - 1][cWardTeam[j + 2] - 1] = @ + 1],
             cWardTeam, j + 1)

\* TransitionLoop that does not count a move from a category to itself
RECURSIVE TransitionLoopNoSelf(_, _, _)
TransitionLoopNoSelf(m, cWardTeam, j) ==
    IF j >= Len(cWardTeam) - 1 THEN m
    ELSE TransitionLoopNoSelf(
             IF cWardTeam[j + 1] = cWardTeam[j + 2] THEN m
             ELSE [m EXCEPT ![cWardTeam[j + 1] - 1][cWardTeam[j + 2] - 1] = @ + 1],
             cWardTeam, j + 1)

\* lines 148-150: for j in range(0, l - 1); cWardTeam.iloc[j] is cw[j + 1]
RECURSIVE TransitionLoop(_, _, _)
TransitionLoop(m, cWardTeam, j) ==
    IF j >= Len(cWardTeam) - 1 THEN m
    ELSE TransitionLoop(
             [m EXCEPT ![cWardTeam[j + 1] - 1][cWardTeam[j + 2] - 1] = @ + 1],
             cWardTeam, j + 1)

\* ClientCodes without the selection of line 145: the ids of all the rows
ClientCodesAllRows(frame, ID) == Column(frame, "wardTeamCatCode")

\* the wardTeamCatCode of the rows of one ClientID, in row order (line 145)
ClientCodes(frame, ID) ==
    Column(SelectSeq(frame, LAMBDA row : row.ClientID = ID), "wardTeamCatCode")

\* ClientLoop with the test of line 147 as l > 0: an entity with one event
\* takes the transition branch and is never recorded
RECURSIVE ClientLoopNoSingles(_, _, _)
ClientLoopNoSingles(sm, frame, IDs) ==
    IF IDs = <<>> THEN sm
    ELSE LET ID == Head(IDs)
             cWardTeam == ClientCodes(frame, ID)
             l == Len(cWardTeam)
             sm2 == IF l > 0
                    THEN [sm EXCEPT !.servMove = TransitionLoop(@, cWardTeam, 0)]
                    ELSE [sm EXCEPT !.singles = Append(@, ID)]
         IN  ClientLoopNoSingles(sm2, frame, Tail(IDs))

\* lines 143-153: for ID in clientIDUni
RECURSIVE ClientLoop(_, _, _)
ClientLoop(sm, frame, IDs) ==
    IF IDs = <<>> THEN sm
    ELSE LET ID == Head(IDs)
             cWardTeam == ClientCodes(frame, ID)
             l == Len(cWardTeam)
             sm2 == IF l > 1
                    THEN [sm EXCEPT !.servMove = TransitionLoop(@, cWardTeam, 0)]
                    ELSE [sm EXCEPT !.singles = Append(@, ID)]
         IN  ClientLoop(sm2, frame, Tail(IDs))

\* servMove and singles as output_SM_file leaves them; singles starts as the
\* scalar 0 and np.vstack stacks each ClientID under it
ServiceMovement(frame) ==
    LET n == SeqMax(Column(frame, "wardTeamCatCode"))
        clientIDUni == unique(Column(frame, "ClientID"))
    IN  ClientLoop([servMove |-> zeros(n), singles |-> <<0>>], frame, clientIDUni)

----------------------------------------------------------------------------
(* output_Edge_file *)

\* servMove.shape[0]
shape0(m) == Cardinality(DOMAIN m)

\* SourceLoop that leaves out the cells of the diagonal
RECURSIVE SourceLoopNoSelfLoops(_, _, _, _)
SourceLoopNoSelfLoops(edges, m, i, j) ==
    IF j >= shape0(m) THEN edges
    ELSE SourceLoopNoSelfLoops(IF m[j][i] > 0 /\ j # i
                               THEN Append(edges, <<j + 1, i + 1, m[j][i]>>)
                               ELSE edges,
                               m, i, j + 1)

\* SourceLoop that reads servMove[i, j]: the outer loop runs over the sources
RECURSIVE SourceLoopRowMajor(_, _, _, _)
SourceLoopRowMajor(edges, m, i, j) ==
    IF j >= shape0(m) THEN edges
    ELSE SourceLoopRowMajor(IF m[i][j] > 0
                            THEN Append(edges, <<i + 1, j + 1, m[i][j]>>)
                            ELSE edges,
                            m, i, j + 1)

\* SourceLoop that records the indices j and i of the cell, from 0, as
\* Source and Target
RECURSIVE SourceLoopZeroBased(_, _, _, _)
SourceLoopZeroBased(edges, m, i, j) ==
    IF j >= shape0(m) THEN edges
    ELSE SourceLoopZeroBased(IF m[j][i] > 0
                             THEN Append(edges, <<j, i, m[j][i]>>)
                             ELSE edges,
                             m, i, j + 1)

\* lines 194-198: for j in range(0, lenRow), with the column i fixed
RECURSIVE SourceLoop(_, _, _, _)
SourceLoop(edges, m, i, j) ==
    IF j >= shape0(m) THEN edges
    ELSE SourceLoop(IF m[j][i] > 0
                    THEN Append(edges, <<j + 1, i + 1, m[j][i]>>)
                    ELSE edges,
                    m, i, j + 1)

\* lines 193-198: for i in range(0, lenRow)
RECURSIVE TargetLoop(_, _, _)
TargetLoop(edges, m, i) ==
    IF i >= shape0(m) THEN edges
    ELSE TargetLoop(SourceLoop(edges, m, i, 0), m, i + 1)

\* lines 191-206: the frame with columns Source, Target, Type, Id, Weight
EdgeFrame(m) ==
    LET stacked == TargetLoop(<<<<0, 0, 0>>>>, m, 0)
        edges == SubSeq(stacked, 2, Len(stacked))
        lenEdge == Len(edges)
    IN  [k \in 1..lenEdge |->
            [Source |-> edges[k][1],
             Target |-> edges[k][2],
             Type |-> "Directed",
             Id |-> k - 1,
             Weight |-> edges[k][3]]]

----------------------------------------------------------------------------
(* output_Node_file *)

RECURSIVE GCD(_, _)
GCD(a, b) == IF b = 0 THEN a ELSE GCD(b, a % b)

\* the float n / d, kept exact as a fraction in lowest terms
Fraction(n, d) == LET g == GCD(n, d) IN [num |-> n \div g, den |-> d \div g]

\* the values of s in ascending order
RECURSIVE SortedInts(_)
SortedInts(s) ==
    IF s = <<>> THEN <<>>
    ELSE LET k == CHOOSE i \in DOMAIN s : \A h \in DOMAIN s : s[i] <= s[h]
         IN  <<s[k]>> \o SortedInts(SubSeq(s, 1, k - 1) \o SubSeq(s, k + 1, Len(s)))

Mean(values) == Fraction(SeqSum(values), Len(values))

Median(values) ==
    LET v == SortedInts(values)
        n == Len(v)
    IN  IF n % 2 = 1 THEN Fraction(v[(n + 1) \div 2], 1)
        ELSE Fraction(v[n \div 2] + v[n \div 2 + 1], 2)

\* the keys of groupby('wardTeamCatCode'), ascending
GroupKeys(frame) == SortedInts(unique(Column(frame, "wardTeamCatCode")))

\* groupby('wardTeamCatCode')['LoSdays']: the LoSdays of the rows of one code
LoSOfCode(frame, code) ==
    Column(SelectSeq(frame, LAMBDA row : row.wardTeamCatCode = code), "LoSdays")

\* daysMeans with the groups in order of first appearance, as
\* groupby(sort = False) gives them
daysMeansUnsorted(frame) ==
    LET keys == unique(Column(frame, "wardTeamCatCode"))
    IN  [k \in DOMAIN keys |-> Mean(LoSOfCode(frame, keys[k]))]

daysMeans(frame) ==
    LET keys == GroupKeys(frame)
    IN  [k \in DOMAIN keys |-> Mean(LoSOfCode(frame, keys[k]))]

daysMedians(frame) ==
    LET keys == GroupKeys(frame)
    IN  [k \in DOMAIN keys |-> Median(LoSOfCode(frame, keys[k]))]

\* lines 243-250: one row per distinct (wardTeamCat, wardTeamCatCode,
\* Setting), ordered by wardTeamCatCode.  Rows of equal code keep their
\* order of first appearance here; whenever two rows have equal code the
\* np.vstack of line 253 fails, so their order is never observed.
RECURSIVE RowsByCode(_, _)
RowsByCode(df, keys) ==
    IF keys = <<>> THEN <<>>
    ELSE SelectSeq(df, LAMBDA row : row.wardTeamCatCode = Head(keys))
         \o RowsByCode(df, Tail(keys))

\* NodeKeyFrame without the sort_values of line 250: the rows stay in order
\* of first appearance
NodeKeyFrameUnsorted(frame) ==
    unique([i \in DOMAIN frame |->
               [wardTeamCat |-> frame[i].wardTeamCat,
                wardTeamCatCode |-> frame[i].wardTeamCatCode,
                Setting |-> frame[i].newSetting]])

NodeKeyFrame(frame) ==
    LET df == unique([i \in DOMAIN frame |->
                        [wardTeamCat |-> frame[i].wardTeamCat,
                         wardTeamCatCode |-> frame[i].wardTeamCatCode,
                         Setting |-> frame[i].newSetting]])
    IN  RowsByCode(df, GroupKeys(frame))

\* np.vstack accepts its five columns only when they have one length
NodeStackable(frame) == Len(NodeKeyFrame(frame)) = Len(daysMeans(frame))

\* lines 253-255: the frame with columns ID, Label, MeanLoS, MedianLoS, Setting
NodeFrame(frame) ==
    LET df == NodeKeyFrame(frame)
        means == daysMeans(frame)
        medians == daysMedians(frame)
    IN  [k \in DOMAIN df |->
            [ID |-> df[k].wardTeamCatCode,
             Label |-> df[k].wardTeamCat,
             MeanLoS |-> means[k],
             MedianLoS |-> medians[k],
             Setting |-> df[k].Setting]]

----------------------------------------------------------------------------
(* The files *)

\* the file name: FILESTART + FILEMIDDLE + the end of the kind + FILEEX
FileName(foi, end) == <<foi.FILEMIDDLE, end>>

\* np.savetxt / to_csv: the file of that name now holds content
WriteFile(fs, name, content) == (name :> content) @@ fs

----------------------------------------------------------------------------
(* The input *)

\* the Setting of a ward team: clean_data leaves one Setting per WardTeam
SettingOf(w) == IF w = TeamM THEN "Community" ELSE "Inpatient"

\* The (WardTeam, group) pairs of the input rows: "M" occurs in every
\* group and without one; "LY", which is also the name the rows of group "Y"
\* get when they are not in focus, occurs in the groups "X" and "Y".
RowKinds ==
    ({TeamM} \X GroupValues) \cup ({TeamLY} \X {GroupX, GroupY})

\* sort_data leaves ClientID ascending.  ClientIDs are opaque, so the first
\* is 1 and each new one is the next integer.
SortedByClient(ids) ==
    /\ ids # <<>> => ids[1] = 1
    /\ \A i \in 1..(Len(ids) - 1) : ids[i + 1] \in {ids[i], ids[i] + 1}

\* The frames of n rows that sort_data returns: ClientID ascending, and
\* within a ClientID the rows in order of ReferralDate.  LoSdays, which
\* delete_zero_LoS keeps >= 0, is the row's position.
SortedFrames(n) ==
    {[i \in 1..n |->
         [ClientID |-> ids[i],
          WardTeam |-> kinds[i][1],
          Setting |-> SettingOf(kinds[i][1]),
          Locality_Edit |-> kinds[i][2],
          LoSdays |-> i - 1]] :
     ids \in {c \in [1..n -> 1..MaxClients] : SortedByClient(c)},
     kinds \in [1..n -> RowKinds]}

\* one client with the ward teams Ward1, Ward2, Ward2, Ward3, in group "X"
ScenarioFrame ==
    [i \in 1..4 |->
        [ClientID |-> 1,
         WardTeam |-> <<Ward1, Ward2, Ward2, Ward3>>[i],
         Setting |-> "Inpatient",
         Locality_Edit |-> GroupX,
         LoSdays |-> i]]

InputFrames == UNION {SortedFrames(n) : n \in 0..MaxLen} \cup {ScenarioFrame}

----------------------------------------------------------------------------
(* create_network_data_for_subgroup *)

Init ==
    /\ pc = "start"
    /\ DATA \in InputFrames
    /\ \E represent \in {0, 1} :
           subgroup_info = [DATA |-> DATA,
                            COLUMN |-> "Locality_Edit",
                            REPRESENT_REMOVED |-> represent,
                            SUBGROUP_NODE_NAME |-> NodeName,
                            SUBGROUP_FILENAME |-> <<95>>]
    /\ groups = <<>>
    /\ group = <<>>
    /\ file_output_info = [DATA_SG |-> <<>>, FILEMIDDLE |-> <<>>]
    /\ servMove = <<>>
    /\ singles = <<>>
    /\ edgesdf = <<>>
    /\ nodesdf = <<>>
    /\ files = <<>>

\* RemoveNone without the filter of line 521
RemoveNoneKeepsRows ==
    /\ pc = "start"
    /\ groups' = unique(Column(subgroup_info.DATA, subgroup_info.COLUMN))
    /\ pc' = "for"
    /\ UNCHANGED <<DATA, subgroup_info, group, file_output_info, servMove,
                   singles, edgesdf, nodesdf, files>>

\* line 521, and the evaluation of the iterable of line 522
RemoveNone ==
    /\ pc = "start"
    /\ LET kept == SelectSeq(subgroup_info.DATA,
                             LAMBDA row : row[subgroup_info.COLUMN] # NoneStr)
       IN  /\ subgroup_info' = [subgroup_info EXCEPT !.DATA = kept]
           /\ groups' = unique(Column(kept, subgroup_info.COLUMN))
    /\ pc' = "for"
    /\ UNCHANGED <<DATA, group, file_output_info, servMove, singles,
                   edgesdf, nodesdf, files>>

\* ForGroup without the filter of line 526: DATA_SG is the whole frame
ForGroupNoFilter ==
    /\ pc = "for"
    /\ groups # <<>>
    /\ group' = Head(groups)
    /\ groups' = Tail(groups)
    /\ file_output_info' =
           update_dictionary(subgroup_info,
                             [file_output_info EXCEPT !.DATA_SG = subgroup_info.DATA],
                             group', make_filename(group'))
    /\ pc' = "SM"
    /\ UNCHANGED <<DATA, subgroup_info, servMove, singles, edgesdf, nodesdf, files>>

\* ForGroup with categories in an arbitrary order instead of the sorted
\* order of astype('category')
ForGroupAnyCategoryOrder ==
    /\ pc = "for"
    /\ groups # <<>>
    /\ group' = Head(groups)
    /\ groups' = Tail(groups)
    /\ LET DATA_SG0 ==
               IF subgroup_info.REPRESENT_REMOVED = 0
               THEN SelectSeq(subgroup_info.DATA,
                              LAMBDA row : row[subgroup_info.COLUMN] = group')
               ELSE subgroup_info.DATA
           foi1 == create_new_ward_and_setting_columns(
                       subgroup_info,
                       [file_output_info EXCEPT !.DATA_SG = DATA_SG0], group')
           frame == foi1.DATA_SG
           labels == Range(Column(frame, "newWardTeam"))
       IN  \E categories \in {c \in [1..Cardinality(labels) -> labels] :
                                 Range(c) = labels} :
               file_output_info' =
                   [DATA_SG |->
                        [i \in DOMAIN frame |->
                            [wardTeamCat |-> frame[i].newWardTeam,
                             wardTeamCatCode |->
                                 CatCode(categories, frame[i].newWardTeam) + 1]
                            @@ frame[i]],
                    FILEMIDDLE |-> str(subgroup_info.SUBGROUP_FILENAME)
                                   \o str(make_filename(group'))]
    /\ pc' = "SM"
    /\ UNCHANGED <<DATA, subgroup_info, servMove, singles, edgesdf, nodesdf, files>>

\* ForGroup without the deep copies of lines 526 and 528: DATA_SG is the
\* frame of subgroup_info itself, so what update_dictionary does to DATA_SG
\* is done to subgroup_info['DATA']
ForGroupNoDeepCopy ==
    /\ pc = "for"
    /\ groups # <<>>
    /\ group' = Head(groups)
    /\ groups' = Tail(groups)
    /\ LET DATA_SG0 ==
               IF subgroup_info.REPRESENT_REMOVED = 0
               THEN SelectSeq(subgroup_info.DATA,
                              LAMBDA row : row[subgroup_info.COLUMN] = group')
               ELSE subgroup_info.DATA
       IN  file_output_info' =
               update_dictionary(subgroup_info,
                                 [file_output_info EXCEPT !.DATA_SG = DATA_SG0],
                                 group', make_filename(group'))
    /\ subgroup_info' =
           IF subgroup_info.REPRESENT_REMOVED = 0
           THEN subgroup_info
           ELSE [subgroup_info EXCEPT !.DATA = file_output_info'.DATA_SG]
    /\ pc' = "SM"
    /\ UNCHANGED <<DATA, servMove, singles, edgesdf, nodesdf, files>>

\* ForGroup that keeps the rows of the focus group only, whatever
\* REPRESENT_REMOVED is
ForGroupAlwaysFilters ==
    /\ pc = "for"
    /\ groups # <<>>
    /\ group' = Head(groups)
    /\ groups' = Tail(groups)
    /\ file_output_info' =
           update_dictionary(
               subgroup_info,
               [file_output_info EXCEPT !.DATA_SG =
                    SelectSeq(subgroup_info.DATA,
                              LAMBDA row : row[subgroup_info.COLUMN] = group')],
               group', make_filename(group'))
    /\ pc' = "SM"
    /\ UNCHANGED <<DATA, subgroup_info, servMove, singles, edgesdf, nodesdf, files>>

\* lines 522-529: the next group, its DATA_SG and update_dictionary
ForGroup ==
    /\ pc = "for"
    /\ groups # <<>>
    /\ group' = Head(groups)
    /\ groups' = Tail(groups)
    /\ IF group' # NoneStr
       THEN LET filename == make_filename(group')
                DATA_SG ==
                    IF subgroup_info.REPRESENT_REMOVED = 0
                    THEN SelectSeq(subgroup_info.DATA,
                                   LAMBDA row : row[subgroup_info.COLUMN] = group')
                    ELSE subgroup_info.DATA
            IN  /\ file_output_info' =
                       update_dictionary(subgroup_info,
                                         [file_output_info EXCEPT !.DATA_SG = DATA_SG],
                                         group', filename)
                /\ pc' = "SM"
       ELSE UNCHANGED <<pc, file_output_info>>
    /\ UNCHANGED <<DATA, subgroup_info, servMove, singles, edgesdf, nodesdf, files>>

\* line 531
Return ==
    /\ pc = "for"
    /\ groups = <<>>
    /\ pc' = "done"
    /\ UNCHANGED <<DATA, subgroup_info, groups, group, file_output_info,
                   servMove, singles, edgesdf, nodesdf, files>>

\* lines 135-161; max() of an empty column raises ValueError
output_SM_file ==
    /\ pc = "SM"
    /\ IF file_output_info.DATA_SG = <<>>
       THEN /\ pc' = "ValueError"
            /\ UNCHANGED <<servMove, singles, files>>
       ELSE LET sm == ServiceMovement(file_output_info.DATA_SG)
            IN  /\ servMove' = sm.servMove
                /\ singles' = sm.singles
                /\ files' = WriteFile(files, FileName(file_output_info, "_SM_jupyter"),
                                      sm.servMove)
                /\ pc' = "Edge"
    /\ UNCHANGED <<DATA, subgroup_info, groups, group, file_output_info,
                   edgesdf, nodesdf>>

\* lines 191-213
output_Edge_file ==
    /\ pc = "Edge"
    /\ edgesdf' = EdgeFrame(servMove)
    /\ files' = WriteFile(files, FileName(file_output_info, "_edgeList_jupyter"),
                          edgesdf')
    /\ pc' = "Node"
    /\ UNCHANGED <<DATA, subgroup_info, groups, group, file_output_info,
                   servMove, singles, nodesdf>>

\* lines 239-262; np.vstack of columns of unequal length raises ValueError
output_Node_file ==
    /\ pc = "Node"
    /\ IF NodeStackable(file_output_info.DATA_SG)
       THEN /\ nodesdf' = NodeFrame(file_output_info.DATA_SG)
            /\ files' = WriteFile(files, FileName(file_output_info, "_nodeList_jupyter"),
                                  nodesdf')
            /\ pc' = "for"
       ELSE /\ pc' = "ValueError"
            /\ UNCHANGED <<nodesdf, files>>
    /\ UNCHANGED <<DATA, subgroup_info, groups, group, file_output_info,
                   servMove, singles, edgesdf>>

Next ==
    \/ RemoveNone
    \/ ForGroup
    \/ Return
    \/ output_SM_file
    \/ output_Edge_file
    \/ output_Node_file

Spec == Init /\ [][Next]_vars

----------------------------------------------------------------------------
(* output_Edge_file on its own: any square matrix of counts *)

\* the n x n matrices with cells in 0..MaxCell
Matrices(n) == [0..(n - 1) -> [0..(n - 1) -> 0..MaxCell]]

InitEdge ==
    /\ pc = "Edge"
    /\ servMove \in UNION {Matrices(n) : n \in 1..MaxN}
    /\ DATA = <<>>
    /\ subgroup_info = [DATA |-> <<>>,
                        COLUMN |-> "Locality_Edit",
                        REPRESENT_REMOVED |-> 0,
                        SUBGROUP_NODE_NAME |-> NodeName,
                        SUBGROUP_FILENAME |-> <<95>>]
    /\ groups = <<>>
    /\ group = <<>>
    /\ file_output_info = [DATA_SG |-> <<>>, FILEMIDDLE |-> <<>>]
    /\ singles = <<>>
    /\ edgesdf = <<>>
    /\ nodesdf = <<>>
    /\ files = <<>>

NextEdge == output_Edge_file

SpecEdge == InitEdge /\ [][NextEdge]_vars

----------------------------------------------------------------------------
(* The script executed a second time on the same input and configuration *)

\* where the outcome of the first execution is kept
FirstExecution == <<<<>>, "first execution">>

\* the files written by the execution under way
FilesWritten == [name \in DOMAIN files \ {FirstExecution} |-> files[name]]

\* the first execution has ended; main is run again: subgroup_info is built
\* anew from the same frame (lines 716-721) and
\* create_network_data_for_subgroup is called again
Rerun ==
    /\ pc \in {"done", "ValueError"}
    /\ FirstExecution \notin DOMAIN files
    /\ files' = (FirstExecution :>
                     [pc |-> pc, files |-> files, servMove |-> servMove,
                      singles |-> singles, edgesdf |-> edgesdf,
                      nodesdf |-> nodesdf])
    /\ subgroup_info' = [subgroup_info EXCEPT !.DATA = DATA]
    /\ pc' = "start"
    /\ groups' = <<>>
    /\ group' = <<>>
    /\ file_output_info' = [DATA_SG |-> <<>>, FILEMIDDLE |-> <<>>]
    /\ servMove' = <<>>
    /\ singles' = <<>>
    /\ edgesdf' = <<>>
    /\ nodesdf' = <<>>
    /\ UNCHANGED DATA

NextTwice ==
    \/ RemoveNone
    \/ ForGroup
    \/ Return
    \/ output_SM_file
    \/ output_Edge_file
    \/ output_Node_file
    \/ Rerun

SpecTwice == Init /\ [][NextTwice]_vars

----------------------------------------------------------------------------
(* The whole network: main calls update_dictionary and create_output_files *)
(* on the whole frame, without a subgroup loop (lines 651-662)             *)

\* '_OneOOA'
OneOOA == <<95, 79, 110, 101, 79, 79, 65>>

\* clean_data gives one Setting per WardTeam to 'Harford' only (lines
\* 357-360): any other ward team can come with two settings.  The frames of n
\* rows, all of group "X", with the setting of each row free.
FramesWithAnySetting(n) ==
    {[i \in 1..n |->
         [ClientID |-> ids[i],
          WardTeam |-> teams[i],
          Setting |-> settings[i],
          Locality_Edit |-> GroupX,
          LoSdays |-> i - 1]] :
     ids \in {c \in [1..n -> 1..MaxClients] : SortedByClient(c)},
     teams \in [1..n -> {TeamM, TeamLY}],
     settings \in [1..n -> {"Community", "Inpatient"}]}

\* The frames of n rows, all of group "X", with the LoSdays of each row free
\* (delete_zero_LoS keeps LoSdays >= 0)
FramesWithAnyLoS(n) ==
    {[i \in 1..n |->
         [ClientID |-> ids[i],
          WardTeam |-> teams[i],
          Setting |-> SettingOf(teams[i]),
          Locality_Edit |-> GroupX,
          LoSdays |-> days[i]]] :
     ids \in {c \in [1..n -> 1..MaxClients] : SortedByClient(c)},
     teams \in [1..n -> {TeamM, TeamLY}],
     days \in [1..n -> 0..MaxLoS]}

InitWhole ==
    /\ pc = "main"
    /\ \/ DATA \in InputFrames
       \/ \E n \in 0..MaxLen : DATA \in FramesWithAnySetting(n)
       \/ \E n \in 0..MaxLen : DATA \in FramesWithAnyLoS(n)
    /\ subgroup_info = [DATA |-> DATA,
                        COLUMN |-> <<>>,
                        REPRESENT_REMOVED |-> 0,
                        SUBGROUP_NODE_NAME |-> <<>>,
                        SUBGROUP_FILENAME |-> OneOOA]
    /\ groups = <<>>
    /\ group = <<>>
    /\ file_output_info = [DATA_SG |-> <<>>, FILEMIDDLE |-> <<>>]
    /\ servMove = <<>>
    /\ singles = <<>>
    /\ edgesdf = <<>>
    /\ nodesdf = <<>>
    /\ files = <<>>

\* lines 659-661: DATA_SG is a deep copy of the frame; update_dictionary
\* with group "" and filename ""
WholeNetwork ==
    /\ pc = "main"
    /\ file_output_info' =
           update_dictionary(subgroup_info,
                             [file_output_info EXCEPT !.DATA_SG = DATA],
                             <<>>, <<>>)
    /\ pc' = "SM"
    /\ UNCHANGED <<DATA, subgroup_info, groups, group, servMove, singles,
                   edgesdf, nodesdf, files>>

NextWhole ==
    \/ WholeNetwork
    \/ output_SM_file
    \/ output_Edge_file
    \/ output_Node_file

SpecWhole == InitWhole /\ [][NextWhole]_vars

----------------------------------------------------------------------------
(* output_SM_file on frames whose rows are in any order of ClientID *)

\* The frames of n rows, all of group "X", in which the rows of the
\* entities are in any order: output_SM_file itself asks for no order
FramesInAnyOrder(n) ==
    {[i \in 1..n |->
         [ClientID |-> ids[i],
          WardTeam |-> teams[i],
          Setting |-> SettingOf(teams[i]),
          Locality_Edit |-> GroupX,
          LoSdays |-> i - 1]] :
     ids \in [1..n -> 1..MaxClients],
     teams \in [1..n -> {TeamM, TeamLY}]}

InitAnyOrder ==
    /\ pc = "main"
    /\ \E n \in 0..MaxLen : DATA \in FramesInAnyOrder(n)
    /\ subgroup_info = [DATA |-> DATA,
                        COLUMN |-> <<>>,
                        REPRESENT_REMOVED |-> 0,
                        SUBGROUP_NODE_NAME |-> <<>>,
                        SUBGROUP_FILENAME |-> OneOOA]
    /\ groups = <<>>
    /\ group = <<>>
    /\ file_output_info = [DATA_SG |-> <<>>, FILEMIDDLE |-> <<>>]
    /\ servMove = <<>>
    /\ singles = <<>>
    /\ edgesdf = <<>>
    /\ nodesdf = <<>>
    /\ files = <<>>

SpecAnyOrder == InitAnyOrder /\ [][NextWhole]_vars

----------------------------------------------------------------------------
(* Where the run is *)

DATA_SG == file_output_info.DATA_SG

\* a run has got past the stage, and no later run has replaced DATA_SG
RunStarted == pc \in {"for", "done", "ValueError"} /\ DOMAIN files # {}
Encoded == pc \in {"SM", "Edge", "Node"} \/ RunStarted
MatrixBuilt == pc \in {"Edge", "Node"} \/ RunStarted
EdgesBuilt == pc = "Node" \/ RunStarted

\* the labels given to the encoder, and the id it gave to a label
EncoderLabels == Range(Column(DATA_SG, "newWardTeam"))
IdOf(label) ==
    DATA_SG[CHOOSE i \in DOMAIN DATA_SG : DATA_SG[i].newWardTeam = label].wardTeamCatCode

\* the sum of the values of a function
RECURSIVE FnSum(_)
FnSum(f) ==
    IF DOMAIN f = {} THEN 0
    ELSE LET x == CHOOSE y \in DOMAIN f : TRUE
         IN  f[x] + FnSum([y \in DOMAIN f \ {x} |-> f[y]])

----------------------------------------------------------------------------
(* C1 *)

\* the pairs of rows that are consecutive events of one entity, the first of
\* category id a and the second of category id b
Steps(frame, a, b) ==
    {<<i, k>> \in (DOMAIN frame) \X (DOMAIN frame) :
        /\ i < k
        /\ frame[i].ClientID = frame[k].ClientID
        /\ \A h \in (i + 1)..(k - 1) : frame[h].ClientID # frame[i].ClientID
        /\ frame[i].wardTeamCatCode = a
        /\ frame[k].wardTeamCatCode = b}

\* C1: the matrix is N x N, N the number of distinct labels of the run's
\* events, and cell [r][c] is the number of times an event of category id
\* r+1 is immediately followed, within its entity, by one of category id c+1
C1_MatrixCountsTransitions ==
    MatrixBuilt =>
        LET N == Cardinality(EncoderLabels) IN
        /\ DOMAIN servMove = 0..(N - 1)
        /\ \A r \in 0..(N - 1) :
               /\ DOMAIN servMove[r] = 0..(N - 1)
               /\ \A c \in 0..(N - 1) :
                      servMove[r][c] = Cardinality(Steps(DATA_SG, r + 1, c + 1))

\* a matrix of two or more categories, built from two entities, with a
\* counted transition between two categories and a cell left at 0
C1_Witness ==
    /\ MatrixBuilt
    /\ Cardinality(EncoderLabels) >= 2
    /\ Cardinality(Range(Column(DATA_SG, "ClientID"))) = 2
    /\ \E r \in DOMAIN servMove : \E c \in DOMAIN servMove :
           r # c /\ servMove[r][c] > 0
    /\ \E r \in DOMAIN servMove : \E c \in DOMAIN servMove : servMove[r][c] = 0

----------------------------------------------------------------------------
(* C2 *)

MatrixSum(m) == FnSum([r \in DOMAIN m |-> FnSum(m[r])])

eventCount(frame, e) == Cardinality({i \in DOMAIN frame : frame[i].ClientID = e})

\* C2: the cells of the matrix sum to the sum, over the entities with at
\* least two events, of eventCount - 1
C2_MatrixSum ==
    MatrixBuilt =>
        LET entities == {e \in Range(Column(DATA_SG, "ClientID")) :
                            eventCount(DATA_SG, e) >= 2}
        IN  MatrixSum(servMove) =
                FnSum([e \in entities |-> eventCount(DATA_SG, e) - 1])

\* one entity with a single event beside one with two or more
C2_Witness ==
    /\ MatrixBuilt
    /\ \E e \in Range(Column(DATA_SG, "ClientID")) : eventCount(DATA_SG, e) = 1
    /\ \E e \in Range(Column(DATA_SG, "ClientID")) : eventCount(DATA_SG, e) >= 2

----------------------------------------------------------------------------
(* C3 *)

NonzeroCells(m) == {<<r, c>> \in (DOMAIN m) \X (DOMAIN m) : m[r][c] > 0}

\* C3: one edge per cell > 0 and none for a cell of 0: as many edges as
\* nonzero cells, no (Source, Target) twice, every Type "Directed", every
\* Weight the cell [Source-1][Target-1]
C3_EdgesAreNonzeroCells ==
    EdgesBuilt =>
        /\ Len(edgesdf) = Cardinality(NonzeroCells(servMove))
        /\ \A k \in DOMAIN edgesdf : \A h \in DOMAIN edgesdf :
               k # h => <<edgesdf[k].Source, edgesdf[k].Target>> #
                        <<edgesdf[h].Source, edgesdf[h].Target>>
        /\ \A k \in DOMAIN edgesdf :
               /\ edgesdf[k].Type = "Directed"
               /\ <<edgesdf[k].Source - 1, edgesdf[k].Target - 1>> \in
                      NonzeroCells(servMove)
               /\ edgesdf[k].Weight =
                      servMove[edgesdf[k].Source - 1][edgesdf[k].Target - 1]

\* edges written for a matrix with a cell of 0, a cell above 1 and a
\* nonzero cell on the diagonal
C3_Witness ==
    /\ pc = "Node"
    /\ Len(edgesdf) >= 2
    /\ \E r \in DOMAIN servMove : \E c \in DOMAIN servMove : servMove[r][c] = 0
    /\ \E r \in DOMAIN servMove : \E c \in DOMAIN servMove : servMove[r][c] > 1
    /\ \E r \in DOMAIN servMove : servMove[r][r] > 0

----------------------------------------------------------------------------
(* C4 *)

\* (Target, Source) of edge a before (Target, Source) of edge b
TargetThenSourceLess(a, b) ==
    \/ a.Target < b.Target
    \/ a.Target = b.Target /\ a.Source < b.Source

ScenarioEdges ==
    <<[Source |-> 1, Target |-> 2, Type |-> "Directed", Id |-> 0, Weight |-> 1],
      [Source |-> 2, Target |-> 2, Type |-> "Directed", Id |-> 1, Weight |-> 1],
      [Source |-> 2, Target |-> 3, Type |-> "Directed", Id |-> 2, Weight |-> 1]>>

C4_WitnessScenario == EdgesBuilt /\ DATA = ScenarioFrame /\ Len(edgesdf) = 3

----------------------------------------------------------------------------
(* C5 *)

\* C5: the ids are a bijection between the distinct labels of newWardTeam
\* and 1..N, and id(a) < id(b) exactly when a < b
C5_IdsOrderIsomorphic ==
    Encoded =>
        /\ {IdOf(a) : a \in EncoderLabels} = 1..Cardinality(EncoderLabels)
        /\ \A i \in DOMAIN DATA_SG :
               DATA_SG[i].wardTeamCatCode = IdOf(DATA_SG[i].newWardTeam)
        /\ \A a \in EncoderLabels : \A b \in EncoderLabels :
               /\ a # b => IdOf(a) # IdOf(b)
               /\ a # b => (IdOf(a) < IdOf(b) <=> LexLess(a, b))

\* three labels, the first row's label not the smallest, and a longer label
\* before a shorter one
C5_Witness ==
    /\ Encoded
    /\ Cardinality(EncoderLabels) >= 3
    /\ \E i \in DOMAIN DATA_SG : LexLess(DATA_SG[i].newWardTeam, DATA_SG[1].newWardTeam)
    /\ \E a \in EncoderLabels : \E b \in EncoderLabels :
           Len(a) > Len(b) /\ IdOf(a) < IdOf(b)

----------------------------------------------------------------------------
(* C6 *)

\* the ids categorise_columns gives to the labels of a column
IdsOfColumn(labels) ==
    LET frame == categorise_columns(
                     [DATA_SG |-> [i \in DOMAIN labels |-> [newWardTeam |-> labels[i]]],
                      FILEMIDDLE |-> <<>>]).DATA_SG
    IN  {<<frame[i].newWardTeam, frame[i].wardTeamCatCode>> : i \in DOMAIN frame}

\* the columns of up to n rows over the labels S in which every label occurs
ColumnsOver(S, n) ==
    UNION {{col \in [1..k -> S] : Range(col) = S} : k \in 1..n}

\* C6: the ids depend only on the set of distinct labels: every column with
\* the same distinct labels, in any order and with any multiplicities, gets
\* the ids of this run (stated where categorise_columns has just returned)
C6_IdsDependOnLabelSet ==
    pc = "SM" =>
        \A col \in ColumnsOver(EncoderLabels, Len(DATA_SG)) :
            IdsOfColumn(col) = {<<a, IdOf(a)>> : a \in EncoderLabels}

\* a run with a repeated label and two labels not in sorted order
C6_Witness ==
    /\ pc = "SM"
    /\ Cardinality(EncoderLabels) >= 2
    /\ Cardinality(EncoderLabels) < Len(DATA_SG)
    /\ \E i \in DOMAIN DATA_SG : LexLess(DATA_SG[i].newWardTeam, DATA_SG[1].newWardTeam)

----------------------------------------------------------------------------
(* The subgroup policies *)

Collapse == subgroup_info.REPRESENT_REMOVED # 0

\* the group value of a row
GroupOf(row) == row[subgroup_info.COLUMN]

\* the name given to the rows of the group value v when v is not in focus
CollapsedLabel(v) == subgroup_info.SUBGROUP_NODE_NAME \o v

\* the rows of DATA_SG that are not of the group in focus
Excluded == {i \in DOMAIN DATA_SG : GroupOf(DATA_SG[i]) # group}

\* the group values of the caller's frame that are neither in focus nor "None"
ExcludedValues ==
    {GroupOf(DATA[i]) : i \in DOMAIN DATA} \ {group, NoneStr}

----------------------------------------------------------------------------
(* C7 *)

\* the labels the claim expects the encoder to get
C7_ExpectedLabels ==
    {DATA[i].WardTeam : i \in {h \in DOMAIN DATA : GroupOf(DATA[h]) = group}}
    \cup {CollapsedLabel(v) : v \in ExcludedValues}

\* C7: under the collapse policy the labels given to the encoder are the
\* original labels of the events of the focus group together with prefix + v
\* for every other group value v present, and no event of another group
\* keeps its original label
C7_CollapsedLabelSet ==
    (Collapse /\ Encoded) =>
        /\ EncoderLabels = C7_ExpectedLabels
        /\ \A i \in Excluded :
               DATA_SG[i].newWardTeam # subgroup_info.DATA[i].WardTeam

\* the part of C7 that the code keeps: the label set, and every event of
\* another group carries prefix + its own group value
C7_LabelSetAndRenaming ==
    (Collapse /\ Encoded) =>
        /\ EncoderLabels = C7_ExpectedLabels
        /\ \A i \in Excluded :
               DATA_SG[i].newWardTeam = CollapsedLabel(GroupOf(DATA_SG[i]))

----------------------------------------------------------------------------
(* C8 *)

\* C8: under the collapse policy recoding changes only label and setting of
\* the events outside the focus group: as many events as before, each with
\* its entity id, duration and group value, in the same order, and the
\* events of the focus group with their original label and setting
C8_RecodingFrame ==
    (Collapse /\ Encoded) =>
        /\ Len(DATA_SG) = Len(subgroup_info.DATA)
        /\ \A i \in DOMAIN DATA_SG :
               /\ DATA_SG[i].ClientID = subgroup_info.DATA[i].ClientID
               /\ DATA_SG[i].LoSdays = subgroup_info.DATA[i].LoSdays
               /\ GroupOf(DATA_SG[i]) = GroupOf(subgroup_info.DATA[i])
               /\ i \notin Excluded =>
                      /\ DATA_SG[i].newWardTeam = subgroup_info.DATA[i].WardTeam
                      /\ DATA_SG[i].newSetting = subgroup_info.DATA[i].Setting

\* a recoded frame in which one entity has an event of the focus group
\* after an event of another group
C8_Witness ==
    /\ Collapse
    /\ Encoded
    /\ \E i \in Excluded : \E k \in DOMAIN DATA_SG \ Excluded :
           /\ i < k
           /\ DATA_SG[i].ClientID = DATA_SG[k].ClientID
           /\ DATA_SG[i].newWardTeam # subgroup_info.DATA[i].WardTeam

----------------------------------------------------------------------------
(* C9 *)

\* the labels carried by the events outside the focus group
CollapsedLabels == {DATA_SG[i].newWardTeam : i \in Excluded}

\* C9: under the collapse policy two events outside the focus group have the
\* same label exactly when they have the same group value, there are as many
\* collapsed labels as group values other than the focus value and "None",
\* and every event carrying a collapsed label has the setting "Mixture"
C9_OneNodePerExcludedValue ==
    (Collapse /\ Encoded) =>
        /\ \A i \in Excluded : \A k \in Excluded :
               DATA_SG[i].newWardTeam = DATA_SG[k].newWardTeam <=>
                   GroupOf(DATA_SG[i]) = GroupOf(DATA_SG[k])
        /\ Cardinality(CollapsedLabels) = Cardinality(ExcludedValues)
        /\ \A i \in DOMAIN DATA_SG :
               DATA_SG[i].newWardTeam \in CollapsedLabels =>
                   DATA_SG[i].newSetting = "Mixture"

\* the part of C9 that the code keeps: one label per excluded group value,
\* and "Mixture" on every event outside the focus group
C9_ExcludedEventsAreMixture ==
    (Collapse /\ Encoded) =>
        /\ \A i \in Excluded : \A k \in Excluded :
               DATA_SG[i].newWardTeam = DATA_SG[k].newWardTeam <=>
                   GroupOf(DATA_SG[i]) = GroupOf(DATA_SG[k])
        /\ Cardinality(CollapsedLabels) = Cardinality(ExcludedValues)
        /\ \A i \in Excluded : DATA_SG[i].newSetting = "Mixture"

----------------------------------------------------------------------------
(* C10 *)

\* the rows of the caller's frame that belong to the run of the group in
\* focus: not of group "None" and, unless the others are represented, of
\* the group in focus
InRun == {i \in DOMAIN DATA :
             /\ GroupOf(DATA[i]) # NoneStr
             /\ Collapse \/ GroupOf(DATA[i]) = group}

\* the transitions of the entity e among the rows of the run
RunIncrements(e) ==
    LET k == Cardinality({i \in InRun : DATA[i].ClientID = e})
    IN  IF k >= 2 THEN k - 1 ELSE 0

\* C10: the events of group "None" are removed before any subgroup is
\* processed: none is in the source frame, in DATA_SG, in the matrix or in
\* the tables of any run, and no run has "None" as its focus value
C10_NoneIsRemoved ==
    pc # "start" =>
        /\ \A i \in DOMAIN subgroup_info.DATA :
               GroupOf(subgroup_info.DATA[i]) # NoneStr
        /\ NoneStr \notin Range(groups)
        /\ group # NoneStr
        /\ \A name \in DOMAIN files :
               name[1] # subgroup_info.SUBGROUP_FILENAME \o make_filename(NoneStr)
        /\ Encoded =>
               /\ Len(DATA_SG) = Cardinality(InRun)
               /\ \A i \in DOMAIN DATA_SG : GroupOf(DATA_SG[i]) # NoneStr
        /\ MatrixBuilt =>
               MatrixSum(servMove) =
                   FnSum([e \in Range(Column(DATA, "ClientID")) |-> RunIncrements(e)])
        /\ (RunStarted /\ pc # "ValueError") =>
               Len(nodesdf) = Cardinality(EncoderLabels)

\* all runs done for a frame in which an entity has an event of group
\* "None" between two events of other groups
C10_Witness ==
    /\ pc = "done"
    /\ DOMAIN files # {}
    /\ \E i \in DOMAIN DATA : \E k \in DOMAIN DATA :
           /\ i + 1 < k
           /\ GroupOf(DATA[i]) # NoneStr
           /\ GroupOf(DATA[i + 1]) = NoneStr
           /\ GroupOf(DATA[k]) # NoneStr
           /\ DATA[i].ClientID = DATA[k].ClientID

----------------------------------------------------------------------------
(* C11 *)

\* the events of the caller's frame whose group value is the focus value
FocusEvents == SelectSeq(DATA, LAMBDA row : GroupOf(row) = group)

\* C11: under the filter policy the encoder gets exactly the events of the
\* focus group, in order, with label and setting unchanged; the matrix and
\* the node table hold nothing of another group; a run either filters to
\* the focus group or recodes the whole frame, never both and never neither.
\* Each part is stated where its stage has just ended.
C11_FilterPolicy ==
    /\ (~Collapse /\ pc = "SM") =>
           /\ Len(DATA_SG) = Len(FocusEvents)
           /\ \A i \in DOMAIN DATA_SG :
                  /\ GroupOf(DATA_SG[i]) = group
                  /\ DATA_SG[i].ClientID = FocusEvents[i].ClientID
                  /\ DATA_SG[i].LoSdays = FocusEvents[i].LoSdays
                  /\ DATA_SG[i].newWardTeam = FocusEvents[i].WardTeam
                  /\ DATA_SG[i].newSetting = FocusEvents[i].Setting
    /\ (~Collapse /\ pc = "Edge") =>
           /\ shape0(servMove) = Cardinality(Range(Column(FocusEvents, "WardTeam")))
           /\ MatrixSum(servMove) =
                  FnSum([e \in Range(Column(FocusEvents, "ClientID")) |->
                            eventCount(FocusEvents, e) - 1])
    /\ (~Collapse /\ RunStarted /\ pc # "ValueError") =>
           {row.Label : row \in Range(nodesdf)} = Range(Column(FocusEvents, "WardTeam"))
    /\ (Collapse /\ pc = "SM") =>
           /\ Len(DATA_SG) = Len(subgroup_info.DATA)
           /\ \A i \in Excluded :
                  DATA_SG[i].newWardTeam = CollapsedLabel(GroupOf(DATA_SG[i]))

\* a filtered run that has written its node table, for a frame in which an
\* entity has an event of another group, with another label, between two
\* events of the focus group
C11_Witness ==
    /\ ~Collapse
    /\ pc = "for"
    /\ DOMAIN files # {}
    /\ \E i \in DOMAIN DATA : \E k \in DOMAIN DATA :
           /\ i + 1 < k
           /\ DATA[i].ClientID = DATA[k].ClientID
           /\ GroupOf(DATA[i]) = group
           /\ GroupOf(DATA[k]) = group
           /\ GroupOf(DATA[i + 1]) \notin {group, NoneStr}
           /\ DATA[i + 1].WardTeam \notin Range(Column(FocusEvents, "WardTeam"))

----------------------------------------------------------------------------
(* C12 *)

----------------------------------------------------------------------------
(* C13 *)

\* the entities of the run with exactly one event, in order of appearance
SingletonIDs ==
    SelectSeq(unique(Column(DATA_SG, "ClientID")),
              LAMBDA e : eventCount(DATA_SG, e) = 1)

\* the events of the run without those of the entities with one event
WithoutSingletons ==
    SelectSeq(DATA_SG, LAMBDA row : eventCount(DATA_SG, row.ClientID) # 1)

C13_WitnessAllSingle ==
    /\ pc = "Node"
    /\ Len(singles) = 3
    /\ edgesdf = <<>>

----------------------------------------------------------------------------
(* C14 *)

\* C14: a run with no event ends without error, with a matrix of no row,
\* an edge table of no row and a node table of no row, all three written
C14_EmptyRunCompletes ==
    (DATA_SG = <<>> /\ pc \notin {"main", "SM"}) =>
        /\ pc # "ValueError"
        /\ shape0(servMove) = 0
        /\ pc \notin {"Edge", "Node"} =>
               /\ edgesdf = <<>>
               /\ nodesdf = <<>>
               /\ Cardinality(DOMAIN files) = 3

\* what the code does with a run of no event: output_SM_file fails at
\* line 135 and no file is written
C14_EmptyRunFails ==
    (DATA_SG = <<>> /\ pc \notin {"main", "SM"}) =>
        /\ pc = "ValueError"
        /\ servMove = <<>>
        /\ files = <<>>

----------------------------------------------------------------------------
(* C15 *)

\* some label of the run's events occurs with two settings
Ambiguous ==
    \E i \in DOMAIN DATA_SG : \E k \in DOMAIN DATA_SG :
        /\ DATA_SG[i].newWardTeam = DATA_SG[k].newWardTeam
        /\ DATA_SG[i].newSetting # DATA_SG[k].newSetting

\* the node stage of the run is over
NodeStageOver == pc \notin {"main", "SM", "Edge", "Node"}

\* C15: when a label of the run has two settings the node stage writes no
\* node table and the run ends in a ConfigurationError, the error that
\* names the ambiguity
C15_AmbiguityIsConfigurationError ==
    (Ambiguous /\ NodeStageOver) =>
        /\ pc = "ConfigurationError"
        /\ nodesdf = <<>>
        /\ \A name \in DOMAIN files : name[2] # "_nodeList_jupyter"

\* what the code does with such a label: no node table, and the ValueError
\* of np.vstack (line 253) for columns of different lengths
C15_AmbiguityIsValueError ==
    (Ambiguous /\ NodeStageOver) =>
        /\ pc = "ValueError"
        /\ nodesdf = <<>>
        /\ \A name \in DOMAIN files : name[2] # "_nodeList_jupyter"

----------------------------------------------------------------------------
(* C16 *)

\* the kinds of file written under the file name of the run
RunFiles == {name[2] : name \in {f \in DOMAIN files : f[1] = file_output_info.FILEMIDDLE}}

\* C16: a run that has ended has either failed, with none of its matrix,
\* edge table and node table written, or completed, with all three written
C16_AllOrNothing ==
    NodeStageOver =>
        \/ pc = "ValueError" /\ RunFiles = {}
        \/ pc # "ValueError" /\
               RunFiles = {"_SM_jupyter", "_edgeList_jupyter", "_nodeList_jupyter"}

\* what the code does: each stage writes its file when it is reached, so a
\* run that fails in the node stage leaves its matrix and its edge table
C16_FilesOfTheStagesReached ==
    NodeStageOver =>
        \/ pc = "ValueError" /\ DATA_SG = <<>> /\ RunFiles = {}
        \/ pc = "ValueError" /\ Ambiguous /\
               RunFiles = {"_SM_jupyter", "_edgeList_jupyter"}
        \/ pc # "ValueError" /\
               RunFiles = {"_SM_jupyter", "_edgeList_jupyter", "_nodeList_jupyter"}

----------------------------------------------------------------------------
(* C17 *)

\* the source event set: the caller's frame without the events of group
\* "None"
SourceEvents == SelectSeq(DATA, LAMBDA row : GroupOf(row) # NoneStr)

\* DATA_SG of the run for the focus value G executed on its own, from the
\* source event set and a file_output_info no other run has used
AloneFrame(G) ==
    update_dictionary(
        subgroup_info,
        [DATA_SG |-> IF Collapse THEN SourceEvents
                     ELSE SelectSeq(SourceEvents, LAMBDA row : GroupOf(row) = G),
         FILEMIDDLE |-> <<>>],
        G, make_filename(G)).DATA_SG

\* the name under which the run for G writes its table of one kind
OutputName(G, kind) == <<subgroup_info.SUBGROUP_FILENAME \o make_filename(G), kind>>

\* the tables written under the names of the run for G are those that the
\* run for G executed on its own writes
WrittenAsAlone(G) ==
    LET frame == AloneFrame(G)
        alone == ServiceMovement(frame).servMove
        SM == OutputName(G, "_SM_jupyter")
        Edge == OutputName(G, "_edgeList_jupyter")
        Node == OutputName(G, "_nodeList_jupyter")
    IN  /\ SM \in DOMAIN files => files[SM] = alone
        /\ Edge \in DOMAIN files => files[Edge] = EdgeFrame(alone)
        /\ Node \in DOMAIN files => files[Node] = NodeFrame(frame)

\* C17: whatever runs came before, the matrix, the edge table and the node
\* table written for a focus value are those of its run executed alone on
\* the source event set (compared when the sequence of runs has ended), and
\* no run changes the source event set held in subgroup_info
C17_RunsAreIndependent ==
    pc \in {"for", "done", "ValueError"} =>
        /\ subgroup_info.DATA = SourceEvents
        /\ pc # "for" =>
               \A G \in Range(Column(SourceEvents, subgroup_info.COLUMN)) :
                   OutputName(G, "_SM_jupyter") \in DOMAIN files => WrittenAsAlone(G)
        /\ \A name \in DOMAIN files :
               \E G \in Range(Column(SourceEvents, subgroup_info.COLUMN)) :
                   name[1] = OutputName(G, name[2])[1]
        /\ (RunStarted /\ pc # "ValueError") =>
               /\ servMove = files[OutputName(group, "_SM_jupyter")]
               /\ edgesdf = files[OutputName(group, "_edgeList_jupyter")]
               /\ nodesdf = files[OutputName(group, "_nodeList_jupyter")]

\* all runs done under the collapse policy for three focus values: each run
\* but the first comes after runs that renamed its events
C17_Witness ==
    /\ pc = "done"
    /\ Collapse
    /\ Cardinality(DOMAIN files) = 9
    /\ \E i \in DOMAIN DATA_SG : DATA_SG[i].newWardTeam # SourceEvents[i].WardTeam

----------------------------------------------------------------------------
(* C18 *)

\* the node table of the run in DATA_SG has been written
NodeWritten == RunStarted /\ pc # "ValueError"

\* C18: the node table has one row per category id: N rows, row i with ID i
\* (so the IDs are 1..N ascending, without gap or repeat) and with the
\* label to which the encoder gave the id i
C18_NodeRowPerId ==
    NodeWritten =>
        /\ Len(nodesdf) = Cardinality(EncoderLabels)
        /\ \A i \in DOMAIN nodesdf :
               /\ nodesdf[i].ID = i
               /\ nodesdf[i].Label \in EncoderLabels
               /\ IdOf(nodesdf[i].Label) = i

\* a node table of three rows for a frame whose first event does not have
\* the smallest label
C18_Witness ==
    /\ NodeWritten
    /\ Len(nodesdf) >= 3
    /\ DATA_SG[1].wardTeamCatCode > 1

----------------------------------------------------------------------------
(* C19 *)

\* the events of the run with category id i, of whatever entity
EventsOfId(i) == {j \in DOMAIN DATA_SG : DATA_SG[j].wardTeamCatCode = i}

\* the k-th smallest of the durations of the events J
KthDuration(J, k) ==
    CHOOSE v \in {DATA_SG[j].LoSdays : j \in J} :
        /\ Cardinality({j \in J : DATA_SG[j].LoSdays < v}) < k
        /\ Cardinality({j \in J : DATA_SG[j].LoSdays <= v}) >= k

\* the fraction f is the rational n / d
IsRational(f, n, d) == f.den > 0 /\ f.num * d = n * f.den

\* C19: the node row of id i carries the arithmetic mean and the median of
\* the durations of all the events of category id i, of all entities
\* together, and of no other id
C19_MeanAndMedianPerId ==
    NodeWritten =>
        \A i \in DOMAIN nodesdf :
            LET J == EventsOfId(nodesdf[i].ID)
                n == Cardinality(J)
            IN  /\ n > 0
                /\ IsRational(nodesdf[i].MeanLoS,
                              FnSum([j \in J |-> DATA_SG[j].LoSdays]), n)
                /\ IF n % 2 = 1
                   THEN IsRational(nodesdf[i].MedianLoS,
                                   KthDuration(J, (n + 1) \div 2), 1)
                   ELSE IsRational(nodesdf[i].MedianLoS,
                                   KthDuration(J, n \div 2)
                                       + KthDuration(J, n \div 2 + 1), 2)

\* a node row over events of two entities whose mean is not its median
C19_Witness ==
    /\ NodeWritten
    /\ \E i \in DOMAIN nodesdf :
           /\ nodesdf[i].MeanLoS # nodesdf[i].MedianLoS
           /\ Cardinality({DATA_SG[j].ClientID : j \in EventsOfId(i)}) = 2

\* a node table of two rows with different means and different medians for
\* a frame whose first event is not of the smallest id
C19_WitnessTwoRows ==
    /\ NodeWritten
    /\ Len(nodesdf) = 2
    /\ nodesdf[1].MeanLoS # nodesdf[2].MeanLoS
    /\ nodesdf[1].MedianLoS # nodesdf[2].MedianLoS
    /\ DATA_SG[1].wardTeamCatCode = 2

----------------------------------------------------------------------------
(* C20 *)

\* the entities of the run with two or more events, all of category id c
EntitiesWithin(c) ==
    {e \in Range(Column(DATA_SG, "ClientID")) :
        /\ eventCount(DATA_SG, e) >= 2
        /\ \A i \in DOMAIN DATA_SG :
               DATA_SG[i].ClientID = e => DATA_SG[i].wardTeamCatCode = c}

\* the moves from c to c of the entities that also have events elsewhere
OtherSelfSteps(c) ==
    {st \in Steps(DATA_SG, c, c) : DATA_SG[st[1]].ClientID \notin EntitiesWithin(c)}

\* C20: an entity with k >= 2 events, all of category id c, adds k - 1 to
\* the cell [c-1][c-1], and every nonzero cell of the diagonal gives one
\* edge with Source = Target = c and that cell as Weight (a cell of 0 none)
\* (stated where output_SM_file and output_Edge_file have just returned)
C20_SelfTransitions ==
    /\ pc = "Edge" =>
           \A c \in 1..shape0(servMove) :
               servMove[c - 1][c - 1] =
                   FnSum([e \in EntitiesWithin(c) |-> eventCount(DATA_SG, e) - 1])
                   + Cardinality(OtherSelfSteps(c))
    /\ pc = "Node" =>
           \A c \in 1..shape0(servMove) :
               LET loops == {k \in DOMAIN edgesdf :
                                edgesdf[k].Source = c /\ edgesdf[k].Target = c}
               IN  IF servMove[c - 1][c - 1] > 0
                   THEN /\ Cardinality(loops) = 1
                        /\ \A k \in loops : edgesdf[k].Weight = servMove[c - 1][c - 1]
                   ELSE loops = {}

\* the edges of a run with an entity of two events of one category and an
\* entity of another category beside it: a cell of 1 on the diagonal, its
\* edge, and a cell of 0 on the diagonal without one
C20_Witness ==
    /\ pc = "Node"
    /\ shape0(servMove) >= 2
    /\ \E c \in 1..shape0(servMove) :
           /\ EntitiesWithin(c) # {}
           /\ servMove[c - 1][c - 1] = 1
           /\ \E k \in DOMAIN edgesdf :
                  edgesdf[k].Source = c /\ edgesdf[k].Target = c
    /\ \E c \in 1..shape0(servMove) : servMove[c - 1][c - 1] = 0

\* the edges of a run with an entity of three events of one category: a
\* cell of 2 on the diagonal and its edge
C20_WitnessThree ==
    /\ pc = "Node"
    /\ \E c \in 1..shape0(servMove) :
           /\ \E e \in EntitiesWithin(c) : eventCount(DATA_SG, e) = 3
           /\ servMove[c - 1][c - 1] = 2
           /\ \E k \in DOMAIN edgesdf :
                  /\ edgesdf[k].Source = c
                  /\ edgesdf[k].Target = c
                  /\ edgesdf[k].Weight = 2

----------------------------------------------------------------------------
(* C21 *)

\* the pairs of rows, one directly after the other in the frame, that are
\* events of different entities, the first of id a and the second of id b
Neighbours(frame, a, b) ==
    {i \in 1..(Len(frame) - 1) :
        /\ frame[i].ClientID # frame[i + 1].ClientID
        /\ frame[i].wardTeamCatCode = a
        /\ frame[i + 1].wardTeamCatCode = b}

\* C21: whatever the order of the rows of different entities, a cell counts
\* the moves between consecutive events of one entity and nothing else: the
\* matrix sums to the sum of eventCount - 1, and two rows of different
\* entities that follow one another in the frame add nothing to any cell
C21_NoMoveBetweenEntities ==
    pc = "Edge" =>
        /\ \A r \in DOMAIN servMove : \A c \in DOMAIN servMove :
               /\ servMove[r][c] = Cardinality(Steps(DATA_SG, r + 1, c + 1))
               /\ Steps(DATA_SG, r + 1, c + 1) = {} => servMove[r][c] = 0
        /\ MatrixSum(servMove) =
               FnSum([e \in Range(Column(DATA_SG, "ClientID")) |->
                         eventCount(DATA_SG, e) - 1])

\* a matrix for a frame in which an event of another entity lies between
\* two events of one entity, the neighbouring rows having ids between which
\* no entity moves: their cell is 0
C21_Witness ==
    /\ pc = "Edge"
    /\ \E i \in DOMAIN DATA_SG :
           /\ i + 2 \in DOMAIN DATA_SG
           /\ DATA_SG[i].ClientID = DATA_SG[i + 2].ClientID
           /\ DATA_SG[i].ClientID # DATA_SG[i + 1].ClientID
    /\ \E a \in 1..shape0(servMove) : \E b \in 1..shape0(servMove) :
           /\ Neighbours(DATA_SG, a, b) # {}
           /\ servMove[a - 1][b - 1] = 0
    /\ MatrixSum(servMove) = 1

----------------------------------------------------------------------------
(* C22 *)

\* the row of DATA_SG that holds the event of row i of the caller's frame:
\* the row with its ClientID and LoSdays (in the frames of InputFrames no
\* two rows of an entity have the same LoSdays)
Position(i) ==
    CHOOSE a \in DOMAIN DATA_SG :
        /\ DATA_SG[a].ClientID = DATA[i].ClientID
        /\ DATA_SG[a].LoSdays = DATA[i].LoSdays

\* the events of row i and row k of the caller's frame are consecutive
\* events of one entity in the run: the matrix counts a move between them
DirectStep(i, k) ==
    LET a == Position(i)
        b == Position(k)
    IN  /\ <<a, b>> \in Steps(DATA_SG, DATA_SG[a].wardTeamCatCode,
                                       DATA_SG[b].wardTeamCatCode)
        /\ servMove[DATA_SG[a].wardTeamCatCode - 1]
                   [DATA_SG[b].wardTeamCatCode - 1] >= 1

\* the events of the entity of row i that lie between row i and row k
Between(i, k) ==
    {h \in (i + 1)..(k - 1) : DATA[h].ClientID = DATA[i].ClientID}

\* the pairs of events of the focus group, of one entity, with events
\* between them of which none is of the focus group
SeparatedFocusPairs ==
    {<<i, k>> \in (DOMAIN DATA) \X (DOMAIN DATA) :
        /\ i < k
        /\ DATA[i].ClientID = DATA[k].ClientID
        /\ GroupOf(DATA[i]) = group
        /\ GroupOf(DATA[k]) = group
        /\ Between(i, k) # {}
        /\ \A h \in Between(i, k) : GroupOf(DATA[h]) # group}

\* C22: two events of the focus group of one entity, with only events of
\* other groups or of group "None" between them, are a counted move under
\* the filter policy and are not a counted move under the collapse policy
C22_AdjacencyInRun ==
    pc = "Edge" =>
        \A pair \in SeparatedFocusPairs :
            IF Collapse THEN ~DirectStep(pair[1], pair[2])
            ELSE DirectStep(pair[1], pair[2])

\* C22 as the code has it: under the filter policy the pair is a counted
\* move; under the collapse policy it is one exactly when every event
\* between the two is of group "None", those events being removed before
\* the runs under either policy
C22_AdjacencyAfterNoneRemoval ==
    pc = "Edge" =>
        \A pair \in SeparatedFocusPairs :
            IF Collapse
            THEN DirectStep(pair[1], pair[2]) <=>
                     \A h \in Between(pair[1], pair[2]) : GroupOf(DATA[h]) = NoneStr
            ELSE DirectStep(pair[1], pair[2])

\* the matrix of a run under the collapse policy with an event of another
\* group, not "None", between two events of the focus group: no move
\* between the two is counted
C22_Witness ==
    /\ pc = "Edge"
    /\ Collapse
    /\ \E pair \in SeparatedFocusPairs :
           /\ \E h \in Between(pair[1], pair[2]) : GroupOf(DATA[h]) # NoneStr
           /\ ~DirectStep(pair[1], pair[2])

\* the matrix of a run under the filter policy with such a pair: the move
\* between the two is counted
C22_WitnessFilter ==
    /\ pc = "Edge"
    /\ ~Collapse
    /\ \E pair \in SeparatedFocusPairs :
           /\ \E h \in Between(pair[1], pair[2]) : GroupOf(DATA[h]) # NoneStr
           /\ DirectStep(pair[1], pair[2])

\* the matrix of a run under the collapse policy with an event of group
\* "None" alone between two events of the focus group: the move between
\* the two is counted
C22_WitnessNoneBetween ==
    /\ pc = "Edge"
    /\ Collapse
    /\ \E pair \in SeparatedFocusPairs :
           /\ \A h \in Between(pair[1], pair[2]) : GroupOf(DATA[h]) = NoneStr
           /\ DirectStep(pair[1], pair[2])

----------------------------------------------------------------------------
(* C23 *)

\* the ids of the node table
NodeIds == {nodesdf[i].ID : i \in DOMAIN nodesdf}

\* C23: the Source and the Target of every edge are in 1..N, N the number
\* of categories of the run, and are IDs of the node table of the run; and
\* every id of 1..N, so every node row, has at least one event of the run
C23_EdgesAndNodesAgree ==
    /\ pc = "SM" =>
           \A id \in 1..Cardinality(EncoderLabels) :
               \E i \in DOMAIN DATA_SG : DATA_SG[i].wardTeamCatCode = id
    /\ pc = "Node" =>
           \A k \in DOMAIN edgesdf :
               /\ edgesdf[k].Source \in 1..Cardinality(EncoderLabels)
               /\ edgesdf[k].Target \in 1..Cardinality(EncoderLabels)
    /\ NodeWritten =>
           /\ \A k \in DOMAIN edgesdf :
                  edgesdf[k].Source \in NodeIds /\ edgesdf[k].Target \in NodeIds
           /\ \A id \in NodeIds :
                  \E i \in DOMAIN DATA_SG : DATA_SG[i].wardTeamCatCode = id

\* the tables of a run with an edge and a node that is on no edge
C23_Witness ==
    /\ NodeWritten
    /\ Len(edgesdf) >= 1
    /\ Len(nodesdf) >= 2
    /\ \E id \in NodeIds :
           \A k \in DOMAIN edgesdf : edgesdf[k].Source # id /\ edgesdf[k].Target # id

\* the tables of a run with two edges, one of them from the greatest id
C23_WitnessTwoEdges ==
    /\ NodeWritten
    /\ Len(edgesdf) >= 2
    /\ \E k \in DOMAIN edgesdf : edgesdf[k].Source = Len(nodesdf)

----------------------------------------------------------------------------
(* C24 *)

\* the events of the source event set that follow an earlier event of
\* their entity: eventCount - 1 summed over the entities with two or more
TransitionTotal ==
    LET entities == {e \in Range(Column(SourceEvents, "ClientID")) :
                        eventCount(SourceEvents, e) >= 2}
    IN  FnSum([e \in entities |-> eventCount(SourceEvents, e) - 1])

\* the focus values whose matrix has been written
MatrixWritten ==
    {G \in Range(Column(SourceEvents, subgroup_info.COLUMN)) :
        OutputName(G, "_SM_jupyter") \in DOMAIN files}

\* C24: under the collapse policy the recoded frame of a run has the events
\* of the source event set, one per row and in their order, and the
\* matrices written for the focus values all sum to the sum, over the
\* entities with two or more events, of eventCount - 1
C24_SameTotalForEveryFocus ==
    Collapse =>
        /\ pc = "SM" =>
               /\ Len(DATA_SG) = Len(SourceEvents)
               /\ \A i \in DOMAIN DATA_SG :
                      /\ DATA_SG[i].ClientID = SourceEvents[i].ClientID
                      /\ DATA_SG[i].LoSdays = SourceEvents[i].LoSdays
                      /\ GroupOf(DATA_SG[i]) = GroupOf(SourceEvents[i])
        /\ pc \in {"for", "done", "ValueError"} =>
               \A G \in MatrixWritten :
                   MatrixSum(files[OutputName(G, "_SM_jupyter")]) = TransitionTotal

\* the matrices of two focus values, of different sizes, with two
\* transitions each
C24_Witness ==
    /\ Collapse
    /\ pc \in {"done", "ValueError"}
    /\ TransitionTotal >= 2
    /\ \E G1 \in MatrixWritten : \E G2 \in MatrixWritten :
           shape0(files[OutputName(G1, "_SM_jupyter")])
               # shape0(files[OutputName(G2, "_SM_jupyter")])

====
